---- MODULE Spec2Model ----
(***************************************************************************)
(* Model of package function (function/function.go): the deploy decision   *)
(* engine (Deploy, DeployCode, DeployConfig, Create, Update), the alias    *)
(* and version manager (Rollback, RollbackVersion) and Delete, run against *)
(* the remote service reached through f.Service.                           *)
(*                                                                         *)
(* Every remote round trip is one atomic action: the call, its effect on   *)
(* the remote state, and the handler's code up to its next remote call or  *)
(* its return.  Every remote call may also fail with a service error that  *)
(* leaves the remote state as it was.                                      *)
(*                                                                         *)
(* Encoding.  A version identifier is a number: LATEST (0) stands for the  *)
(* sentinel "$LATEST", i >= 1 for the published version "i".  An artifact  *)
(* (the zip bytes) is a number in Artifacts, and Sha256 maps it to its     *)
(* digest.                                                                 *)
(***************************************************************************)
EXTENDS Integers, Sequences, FiniteSets, TLC

\* ------------------------------------------------------------------ bounds
\* Published versions the remote service stores before it refuses new code.
MaxVersions == 3
\* Distinct artifacts (zip contents) a deployer may hold.
MaxArtifacts == 2
\* Distinct local configurations (memory, timeout, description, role, handler).
MaxConfigs == 2

Procs == {1, 2}
Artifacts == 1..MaxArtifacts
Configs == 1..MaxConfigs

\* ------------------------------------------------------------ identifiers
\* const CurrentAlias = "current": the one alias every operation addresses.
CurrentAlias == "current"
\* The sentinel "$LATEST", first in every version listing.
LATEST == 0
\* The alias "current" does not exist.
NoAlias == -1
\* Version arguments a caller may pass to RollbackVersion: the sentinel, every
\* version that can exist, and one that never does.
VersionArgs == 0..(MaxVersions + 1)

Nil == "nil"
NotFound == "ResourceNotFoundException"
Conflict == "ResourceConflictException"
StorageExceeded == "CodeStorageExceededException"
InvalidParameter == "InvalidParameterValueException"
ServiceError == "ServiceException"
BuildError == "compiling"
OnlyOneVersion == "Can't rollback. Only one version deployed."
CurrentlyDeployed == "Specified version currently deployed."

\* utils.Sha256(zip): the digest of the artifact bytes (injective on Artifacts).
Sha256(z) == 100 + z

\* ---------------------------------------------------------- remote service
\* The remote state of one function name: whether it exists, the digest of
\* its $LATEST code, the digests of its published versions "1".."n" in
\* order, the version alias "current" points at, and its configuration.
NoFunction ==
    [exists |-> FALSE, CodeSha256 |-> 0, Versions |-> << >>,
     alias |-> NoAlias, config |-> 0]

Resp(e, o, r) == [err |-> e, out |-> o, remote |-> r]

\* A version the remote service can point an alias at.
ValidVersion(r, v) == v = LATEST \/ v \in 1..Len(r.Versions)

GetFunction(r) ==
    IF r.exists THEN Resp(Nil, r.CodeSha256, r) ELSE Resp(NotFound, 0, r)

\* CreateFunction with Publish: the function, its $LATEST and version "1".
CreateFunction(r, z, c) ==
    IF r.exists THEN Resp(Conflict, 0, r)
    ELSE Resp(Nil, 1, [exists |-> TRUE, CodeSha256 |-> Sha256(z),
                       Versions |-> << Sha256(z) >>, alias |-> NoAlias,
                       config |-> c])

\* UpdateFunctionCode with Publish: new $LATEST code and a new version.
UpdateFunctionCode(r, z) ==
    IF ~r.exists THEN Resp(NotFound, 0, r)
    ELSE IF Len(r.Versions) >= MaxVersions THEN Resp(StorageExceeded, 0, r)
    ELSE Resp(Nil, Len(r.Versions) + 1,
              [r EXCEPT !.CodeSha256 = Sha256(z),
                        !.Versions = Append(@, Sha256(z))])

UpdateFunctionConfiguration(r, c) ==
    IF ~r.exists THEN Resp(NotFound, 0, r)
    ELSE Resp(Nil, 0, [r EXCEPT !.config = c])

DeleteFunction(r) ==
    IF ~r.exists THEN Resp(NotFound, 0, r) ELSE Resp(Nil, 0, NoFunction)

GetAlias(r) ==
    IF ~r.exists \/ r.alias = NoAlias THEN Resp(NotFound, 0, r)
    ELSE Resp(Nil, r.alias, r)

CreateAlias(r, v) ==
    IF ~r.exists THEN Resp(NotFound, 0, r)
    ELSE IF r.alias # NoAlias THEN Resp(Conflict, 0, r)
    ELSE IF ~ValidVersion(r, v) THEN Resp(InvalidParameter, 0, r)
    ELSE Resp(Nil, v, [r EXCEPT !.alias = v])

UpdateAlias(r, v) ==
    IF ~r.exists \/ r.alias = NoAlias THEN Resp(NotFound, 0, r)
    ELSE IF ~ValidVersion(r, v) THEN Resp(NotFound, 0, r)
    ELSE Resp(Nil, v, [r EXCEPT !.alias = v])

\* ListVersionsByFunction: oldest first, the sentinel $LATEST leading.
ListVersionsByFunction(r) ==
    IF ~r.exists THEN Resp(NotFound, << >>, r)
    ELSE Resp(Nil, << LATEST >> \o [i \in 1..Len(r.Versions) |-> i], r)

\* A remote call that fails in the service or on the way leaves the remote
\* state alone.
Call(fault, r, resp) == IF fault THEN Resp(ServiceError, 0, r) ELSE resp


\* ------------------------------------------------------------------- state
VARIABLES
    remote,   \* the remote state of the function, shared by every deployer
    procs,    \* the deployers (Function values) that run operations
    pc,       \* pc[p]: the remote call deployer p issues next, or "done"
    op,       \* op[p]: the exported operation p is running or ran last
    zip,      \* zip[p]: the artifact bytes of p's operation (0: none)
    cfg,      \* cfg[p]: f.Config of p's running operation (0: not used)
    version,  \* version[p]: the argument of RollbackVersion
    cur,      \* cur[p]: *alias.FunctionVersion as read by GetAlias
    list,     \* list[p]: list.Versions as read by ListVersionsByFunction
    target,   \* target[p]: created.Version, updated.Version or rollback
    calls,    \* calls[p]: the remote calls of p's operation, in order
    err,      \* err[p]: the error the operation returned (Nil: none)
    rerunOf,  \* rerunOf[p]: the version p's previous operation published and
              \* left unaliased, when p's operation repeats it (0: none)
    rolled,   \* rolled[p]: the alias value p's previous operation, a
              \* successful Rollback, started from, when p's operation is a
              \* Rollback again (0: none)
    fn        \* the call of an operation that uses no remote state (Open,
              \* Invoke's decoding of the response, Zip): its inputs and,
              \* once it returned, its results

vars == << remote, procs, pc, op, zip, cfg, version, cur, list, target,
           calls, err, rerunOf, rolled, fn >>

Ops == { "Deploy", "DeployCode", "DeployConfig", "Create", "Update",
         "Delete", "Rollback", "RollbackVersion" }

\* The first step of each exported operation.
Entry(o) ==
    CASE o = "Deploy"          -> "ZipBytes"
      [] o = "DeployCode"      -> "ZipBytes"
      [] o = "DeployConfig"    -> "DeployConfig"
      [] o = "Create"          -> "Create"
      [] o = "Update"          -> "Update"
      [] o = "Delete"          -> "Delete"
      [] o = "Rollback"        -> "Rollback"
      [] o = "RollbackVersion" -> "RollbackVersion"

\* The operations deployer p is asked to run: the first deployer any of them,
\* a deployer that works beside it new code for the same function.
OpsOf(p) == IF p = 1 THEN Ops ELSE { "Update" }

UsesZip(o) == o \in { "Deploy", "DeployCode", "Create", "Update" }
UsesConfig(o) == o \in { "Deploy", "DeployCode", "DeployConfig", "Create" }

Logged(api, arg, resp) ==
    [api |-> api, arg |-> arg, err |-> resp.err,
     out |-> IF api = "ListVersionsByFunction" THEN Len(resp.out) ELSE resp.out]

AliasWrites == { "CreateAlias", "UpdateAlias" }
Publishes == { "CreateFunction", "UpdateFunctionCode" }
Mutations == AliasWrites \cup Publishes
                 \cup { "UpdateFunctionConfiguration", "DeleteFunction" }

\* The calls of log cs whose api is in apis, in order.
Sel(cs, apis) == SelectSeq(cs, LAMBDA c : c.api \in apis)
Count(cs, apis) == Len(Sel(cs, apis))

\* ----------------------------------------------------- the code's decisions
\* Bug variant of AfterDeployCode: Deploy pushes the configuration whatever
\* DeployCode returned.
M_AfterDeployCode_IgnoresError(o, e) ==
    IF o = "Deploy" THEN "DeployConfig" ELSE "done"

\* Deploy: DeployCode, and DeployConfig only when DeployCode returned nil.
\* Where an operation goes when its code stage returns e.
AfterDeployCode(o, e) ==
    IF o = "Deploy" /\ e = Nil THEN "DeployConfig" ELSE "done"

\* Bug variants of DeployCodeBranch: the NotFound answer is not intercepted;
\* the hash comparison is left out; the hash comparison is inverted.
M_DeployCodeBranch_NoIntercept(e, remoteHash, localHash) ==
    IF e # Nil THEN "return"
    ELSE IF localHash = remoteHash THEN "unchanged"
    ELSE "Update"

M_DeployCodeBranch_NoHashCheck(e, remoteHash, localHash) ==
    IF e = NotFound THEN "Create"
    ELSE IF e # Nil THEN "return"
    ELSE "Update"

M_DeployCodeBranch_Inverted(e, remoteHash, localHash) ==
    IF e = NotFound THEN "Create"
    ELSE IF e # Nil THEN "return"
    ELSE IF localHash # remoteHash THEN "unchanged"
    ELSE "Update"

\* Bug variant of DeployCodeBranch: every failed query selects Create.
M_DeployCodeBranch_AnyErrorCreates(e, remoteHash, localHash) ==
    IF e # Nil THEN "Create"
    ELSE IF localHash = remoteHash THEN "unchanged"
    ELSE "Update"

\* DeployCode after f.Info(): Create on ResourceNotFoundException, return on
\* any other error, return nil when the hashes agree, Update otherwise.
DeployCodeBranch(e, remoteHash, localHash) ==
    IF e = NotFound THEN "Create"
    ELSE IF e # Nil THEN "return"
    ELSE IF localHash = remoteHash THEN "unchanged"
    ELSE "Update"

\* Bug variant of RollbackVersions: the sentinel is not removed.
M_RollbackVersions_KeepLatest(l) == l

\* Rollback: versions := list.Versions[1:] (remove $LATEST).
RollbackVersions(l) == Tail(l)

\* Bug variant of RollbackTarget: the alias is compared with prev.
M_RollbackTarget_ComparePrev(aliasVersion, versions) ==
    LET latest == versions[Len(versions)]
        prev == versions[Len(versions) - 1]
    IN  IF aliasVersion = prev THEN prev ELSE latest

\* Bug variant of RollbackTarget: latest, whatever the alias points at.
M_RollbackTarget_AlwaysLatest(aliasVersion, versions) ==
    versions[Len(versions)]

\* Rollback: latest unless the alias already points at latest, then prev.
RollbackTarget(aliasVersion, versions) ==
    LET latest == versions[Len(versions)]
        prev == versions[Len(versions) - 1]
    IN  IF aliasVersion = latest THEN prev ELSE latest

\* Bug variant of RollbackVersionRefused: the check is left out.
M_RollbackVersionRefused_Never(v, aliasVersion) == FALSE

\* RollbackVersion: refuse the version the alias points at.
RollbackVersionRefused(v, aliasVersion) == v = aliasVersion

\* ---- Zip
\* The source directory holds at most MaxFiles files.
MaxFiles == 3
\* The i-th file a source directory can hold, in the order AddDir walks
\* them: a file named like the entry-point shim, a file of a subdirectory
\* named like the helper, and files of other names at the top.
File(i) ==
    IF i = 1 THEN [dir |-> "", base |-> "index.js"]
    ELSE IF i = 2 THEN [dir |-> "lib", base |-> "byline.js"]
    ELSE [dir |-> "", base |-> ToString(i)]

RECURSIVE Listing(_)
\* The files numbered in S, in walk order.
Listing(S) ==
    IF S = {} THEN << >>
    ELSE LET m == CHOOSE x \in S : \A y \in S : x <= y
         IN  << File(m) >> \o Listing(S \ {m})

\* What r.Build(f.Path) returns when it fails.
BuildFailure == "exit status 1"
ReadError == "open: permission denied"
\* Zip returned a nil reader: no archive at all, which is not an archive
\* without entries.
NoArchive == << [name |-> [dir |-> "", base |-> ""], from |-> "nil"] >>

ZipEntry(name, from) == [name |-> name, from |-> from]
EnvEntry == ZipEntry([dir |-> "", base |-> ".env.json"], "env")
ShimIndex == ZipEntry([dir |-> "", base |-> "index.js"], "shim")
ShimByline == ZipEntry([dir |-> "", base |-> "byline.js"], "shim")

ZipResult(e, cause, archive) ==
    [err |-> e, cause |-> cause, archive |-> archive]

\* Bug variant of Build: the failure of the build is ignored.
M_Build_IgnoresFailure(rt, d) == Nil

\* Zip: a compiled runtime builds the directory first.
Build(rt, d) == IF rt.compiled THEN d.build ELSE Nil

\* Zip: .env.json is added when f.env is set.
EnvEntries(env) == IF env THEN << EnvEntry >> ELSE << >>

\* Bug variant of ShimEntries: the shim is added for every runtime.
M_ShimEntries_Always(rt) == << ShimIndex, ShimByline >>

\* Zip: index.js and byline.js are added when the runtime is shimmed.
ShimEntries(rt) == IF rt.shimmed THEN << ShimIndex, ShimByline >> ELSE << >>

\* zip.AddDir(f.Path): every file of the directory at its relative path.
AddDir(d) == [i \in 1..Len(d.files) |-> ZipEntry(d.files[i], "dir")]

\* Zip: build, then the environment, the shim and the directory's files.
Zip(rt, env, d) ==
    IF Build(rt, d) # Nil
    THEN ZipResult(BuildError, Build(rt, d), NoArchive)
    ELSE IF ~d.readable THEN ZipResult(ReadError, ReadError, NoArchive)
    ELSE ZipResult(Nil, Nil, EnvEntries(env) \o ShimEntries(rt) \o AddDir(d))

\* The artifact argument of a directory whose build fails.
Broken == 0 - 1
\* The runtime of the deployers' functions: compiled and shimmed.
DeployRuntime == [compiled |-> TRUE, shimmed |-> TRUE]
\* The source directory that packages to artifact z.
DirOf(z) ==
    [build |-> IF z = Broken THEN BuildFailure ELSE Nil,
     files |-> Listing({3}),
     readable |-> TRUE]

\* The artifacts operation o can be run on: DeployCode and Deploy package
\* the directory, Create and Update are handed the bytes.
ZipArgs(o) ==
    IF Entry(o) = "ZipBytes" THEN Artifacts \cup {Broken}
    ELSE IF UsesZip(o) THEN Artifacts
    ELSE {0}

\* The version the operation p just ended published and then failed to
\* point "current" at, when operation o with artifact z repeats it: the same
\* DeployCode with the same artifact.
Unaliased(p, o, z) ==
    IF /\ o = "DeployCode" /\ op[p] = o /\ zip[p] = z
       /\ Count(calls[p], Publishes) = 1
       /\ Sel(calls[p], Publishes)[1].err = Nil
       /\ calls[p][Len(calls[p])].api \in AliasWrites
       /\ calls[p][Len(calls[p])].err # Nil
    THEN target[p]
    ELSE 0

\* The alias value p's last operation started from, when that operation was
\* a Rollback that succeeded and o is a Rollback again.
RolledFrom(p, o) ==
    IF o = "Rollback" /\ op[p] = "Rollback" /\ err[p] = Nil /\ target[p] # 0
    THEN cur[p]
    ELSE 0

\* No local call is modelled: the deployers run remote operations.
NoCall == [call |-> "none", in |-> << >>, out |-> << >>, returned |-> TRUE]

\* -------------------------------------------------------------------- init
AtConstruction(ps) ==
    /\ remote = NoFunction
    /\ procs = ps
    /\ pc = [p \in Procs |-> "done"]
    /\ op = [p \in Procs |-> "none"]
    /\ zip = [p \in Procs |-> 0]
    /\ cfg = [p \in Procs |-> 0]
    /\ version = [p \in Procs |-> 0]
    /\ cur = [p \in Procs |-> 0]
    /\ list = [p \in Procs |-> << >>]
    /\ target = [p \in Procs |-> 0]
    /\ calls = [p \in Procs |-> << >>]
    /\ err = [p \in Procs |-> Nil]
    /\ rerunOf = [p \in Procs |-> 0]
    /\ rolled = [p \in Procs |-> 0]

InitWith(ps) == AtConstruction(ps) /\ fn = NoCall

\* One deployer: operations run one after the other.
Init == InitWith({1})

\* ----------------------------------------------------------------- actions
\* p goes to next and, when that is "done", returns e: the operation is
\* over and the configuration it ran with is of no further use.
Goto(p, next, e) ==
    /\ pc' = [pc EXCEPT ![p] = next]
    /\ err' = [err EXCEPT ![p] = e]
    /\ cfg' = [cfg EXCEPT ![p] = IF next = "done" THEN 0 ELSE @]
    /\ UNCHANGED << rolled, fn >>

\* p's step: the remote answered resp to call api(arg); p goes to next and,
\* when that is "done", returns e.
Step(p, api, arg, resp, next, e) ==
    /\ remote' = resp.remote
    /\ calls' = [calls EXCEPT ![p] = Append(@, Logged(api, arg, resp))]
    /\ Goto(p, next, e)

\* A caller invokes an exported operation on a Function that is at rest.
Start(p) ==
    /\ p \in procs
    /\ pc[p] = "done"
    /\ \E o \in OpsOf(p) :
          \E z \in ZipArgs(o),
             c \in IF UsesConfig(o) THEN Configs ELSE {0},
             v \in IF o = "RollbackVersion" THEN VersionArgs ELSE {0} :
                /\ op' = [op EXCEPT ![p] = o]
                /\ zip' = [zip EXCEPT ![p] = z]
                /\ cfg' = [cfg EXCEPT ![p] = c]
                /\ version' = [version EXCEPT ![p] = v]
                /\ pc' = [pc EXCEPT ![p] = Entry(o)]
                /\ rerunOf' = [rerunOf EXCEPT ![p] = Unaliased(p, o, z)]
                /\ rolled' = [rolled EXCEPT ![p] = RolledFrom(p, o)]
    /\ cur' = [cur EXCEPT ![p] = 0]
    /\ list' = [list EXCEPT ![p] = << >>]
    /\ target' = [target EXCEPT ![p] = 0]
    /\ calls' = [calls EXCEPT ![p] = << >>]
    /\ err' = [err EXCEPT ![p] = Nil]
    /\ UNCHANGED << remote, procs, fn >>

\* DeployCode: zip, err := f.ZipBytes(); a failure returns before any call.
ZipBytes(p) ==
    /\ p \in procs
    /\ pc[p] = "ZipBytes"
    /\ LET r == Zip(DeployRuntime, FALSE, DirOf(zip[p]))
       IN  Goto(p, IF r.err = Nil THEN "Info" ELSE "done", r.err)
    /\ UNCHANGED << remote, procs, op, zip, version, cur, list, target,
                    calls, rerunOf >>

\* DeployCode: info, err := f.Info() and the branch taken on its answer.
Info(p) ==
    /\ p \in procs
    /\ pc[p] = "Info"
    /\ \E fault \in BOOLEAN :
          LET resp == Call(fault, remote, GetFunction(remote))
              b == DeployCodeBranch(resp.err, resp.out, Sha256(zip[p]))
          IN  CASE b = "Create" ->
                     Step(p, "GetFunction", 0, resp, "Create", Nil)
                [] b = "Update" ->
                     Step(p, "GetFunction", 0, resp, "Update", Nil)
                [] b = "unchanged" ->
                     Step(p, "GetFunction", 0, resp,
                          AfterDeployCode(op[p], Nil), Nil)
                [] b = "return" ->
                     Step(p, "GetFunction", 0, resp,
                          AfterDeployCode(op[p], resp.err), resp.err)
    /\ UNCHANGED << procs, op, zip, version, cur, list, target, rerunOf >>

\* Bug variant of Create: the alias write is left out, Create returns once
\* the function is created.
M_Create_NoAlias(p) ==
    /\ p \in procs
    /\ pc[p] = "Create"
    /\ \E fault \in BOOLEAN :
          LET resp == Call(fault, remote,
                           CreateFunction(remote, zip[p], cfg[p]))
          IN  /\ Step(p, "CreateFunction", zip[p], resp,
                      AfterDeployCode(op[p], resp.err), resp.err)
              /\ target' = [target EXCEPT ![p] = resp.out]
    /\ UNCHANGED << procs, op, zip, version, cur, list, rerunOf >>

\* Create: f.Service.CreateFunction with Publish, then the error check.
Create(p) ==
    /\ p \in procs
    /\ pc[p] = "Create"
    /\ \E fault \in BOOLEAN :
          LET resp == Call(fault, remote,
                           CreateFunction(remote, zip[p], cfg[p]))
          IN  /\ Step(p, "CreateFunction", zip[p], resp,
                      IF resp.err = Nil THEN "CreateAlias"
                      ELSE AfterDeployCode(op[p], resp.err), resp.err)
              /\ target' = [target EXCEPT ![p] = resp.out]
    /\ UNCHANGED << procs, op, zip, version, cur, list, rerunOf >>

\* Create: f.Service.CreateAlias(current -> created.Version); return err.
CreateAliasWrite(p) ==
    /\ p \in procs
    /\ pc[p] = "CreateAlias"
    /\ \E fault \in BOOLEAN :
          LET resp == Call(fault, remote, CreateAlias(remote, target[p]))
          IN  Step(p, "CreateAlias", target[p], resp,
                   AfterDeployCode(op[p], resp.err), resp.err)
    /\ UNCHANGED << procs, op, zip, version, cur, list, target, rerunOf >>

\* Bug variant of Update: the error of UpdateFunctionCode is not checked, so
\* the alias write follows a failed publish too.
M_Update_NoErrorCheck(p) ==
    /\ p \in procs
    /\ pc[p] = "Update"
    /\ \E fault \in BOOLEAN :
          LET resp == Call(fault, remote, UpdateFunctionCode(remote, zip[p]))
          IN  /\ Step(p, "UpdateFunctionCode", zip[p], resp, "UpdateAlias",
                      resp.err)
              /\ target' = [target EXCEPT ![p] = resp.out]
    /\ UNCHANGED << procs, op, zip, version, cur, list, rerunOf >>

\* Update: f.Service.UpdateFunctionCode with Publish, then the error check.
Update(p) ==
    /\ p \in procs
    /\ pc[p] = "Update"
    /\ \E fault \in BOOLEAN :
          LET resp == Call(fault, remote, UpdateFunctionCode(remote, zip[p]))
          IN  /\ Step(p, "UpdateFunctionCode", zip[p], resp,
                      IF resp.err = Nil THEN "UpdateAlias"
                      ELSE AfterDeployCode(op[p], resp.err), resp.err)
              /\ target' = [target EXCEPT ![p] = resp.out]
    /\ UNCHANGED << procs, op, zip, version, cur, list, rerunOf >>

\* Bug variant of UpdateAliasWrite (a change of behaviour, not of the code's
\* intent): an optimistic check skips the write when "current" has moved
\* past the version this Update published.
M_UpdateAliasWrite_Guarded(p) ==
    /\ p \in procs
    /\ pc[p] = "UpdateAlias"
    /\ \E fault \in BOOLEAN :
          LET resp == IF remote.alias > target[p]
                      THEN Resp(Nil, remote.alias, remote)
                      ELSE Call(fault, remote, UpdateAlias(remote, target[p]))
          IN  Step(p, "UpdateAlias", target[p], resp,
                   AfterDeployCode(op[p], resp.err), resp.err)
    /\ UNCHANGED << procs, op, zip, version, cur, list, target, rerunOf >>

\* Update: f.Service.UpdateAlias(current -> updated.Version); return err.
UpdateAliasWrite(p) ==
    /\ p \in procs
    /\ pc[p] = "UpdateAlias"
    /\ \E fault \in BOOLEAN :
          LET resp == Call(fault, remote, UpdateAlias(remote, target[p]))
          IN  Step(p, "UpdateAlias", target[p], resp,
                   AfterDeployCode(op[p], resp.err), resp.err)
    /\ UNCHANGED << procs, op, zip, version, cur, list, target, rerunOf >>

\* DeployConfig: f.Service.UpdateFunctionConfiguration; return err.
DeployConfig(p) ==
    /\ p \in procs
    /\ pc[p] = "DeployConfig"
    /\ \E fault \in BOOLEAN :
          LET resp == Call(fault, remote,
                           UpdateFunctionConfiguration(remote, cfg[p]))
          IN  Step(p, "UpdateFunctionConfiguration", cfg[p], resp,
                   "done", resp.err)
    /\ UNCHANGED << procs, op, zip, version, cur, list, target, rerunOf >>

\* Delete: f.Service.DeleteFunction; return err.
Delete(p) ==
    /\ p \in procs
    /\ pc[p] = "Delete"
    /\ \E fault \in BOOLEAN :
          LET resp == Call(fault, remote, DeleteFunction(remote))
          IN  Step(p, "DeleteFunction", 0, resp, "done", resp.err)
    /\ UNCHANGED << procs, op, zip, version, cur, list, target, rerunOf >>

\* Rollback: alias, err := f.Service.GetAlias(current).
RollbackGetAlias(p) ==
    /\ p \in procs
    /\ pc[p] = "Rollback"
    /\ \E fault \in BOOLEAN :
          LET resp == Call(fault, remote, GetAlias(remote))
          IN  /\ Step(p, "GetAlias", 0, resp,
                      IF resp.err = Nil THEN "RollbackList" ELSE "done",
                      resp.err)
              /\ cur' = [cur EXCEPT ![p] = resp.out]
    /\ UNCHANGED << procs, op, zip, version, list, target, rerunOf >>

\* Rollback: list, err := f.Service.ListVersionsByFunction, the check that
\* two versions remain, and the choice of the version to roll back to.
RollbackList(p) ==
    /\ p \in procs
    /\ pc[p] = "RollbackList"
    /\ \E fault \in BOOLEAN :
          LET resp == IF fault THEN Resp(ServiceError, << >>, remote)
                      ELSE ListVersionsByFunction(remote)
              versions == RollbackVersions(resp.out)
          IN  IF resp.err # Nil
              THEN /\ Step(p, "ListVersionsByFunction", 0, resp, "done",
                           resp.err)
                   /\ UNCHANGED << list, target >>
              ELSE /\ list' = [list EXCEPT ![p] = resp.out]
                   /\ IF Len(versions) < 2
                      THEN /\ Step(p, "ListVersionsByFunction", 0, resp,
                                   "done", OnlyOneVersion)
                           /\ UNCHANGED target
                      ELSE /\ Step(p, "ListVersionsByFunction", 0, resp,
                                   "RollbackAlias", Nil)
                           /\ target' = [target EXCEPT ![p] =
                                            RollbackTarget(cur[p], versions)]
    /\ UNCHANGED << procs, op, zip, version, cur, rerunOf >>

\* Rollback: f.Service.UpdateAlias(current -> rollback); return err.
RollbackUpdateAlias(p) ==
    /\ p \in procs
    /\ pc[p] = "RollbackAlias"
    /\ \E fault \in BOOLEAN :
          LET resp == Call(fault, remote, UpdateAlias(remote, target[p]))
          IN  Step(p, "UpdateAlias", target[p], resp, "done", resp.err)
    /\ UNCHANGED << procs, op, zip, version, cur, list, target, rerunOf >>

\* RollbackVersion: alias, err := f.Service.GetAlias(current), and the
\* refusal of the version that is deployed.
RollbackVersionGetAlias(p) ==
    /\ p \in procs
    /\ pc[p] = "RollbackVersion"
    /\ \E fault \in BOOLEAN :
          LET resp == Call(fault, remote, GetAlias(remote))
          IN  /\ cur' = [cur EXCEPT ![p] = resp.out]
              /\ IF resp.err # Nil
                 THEN Step(p, "GetAlias", 0, resp, "done", resp.err)
                 ELSE IF RollbackVersionRefused(version[p], resp.out)
                 THEN Step(p, "GetAlias", 0, resp, "done", CurrentlyDeployed)
                 ELSE Step(p, "GetAlias", 0, resp, "RollbackVersionAlias", Nil)
    /\ UNCHANGED << procs, op, zip, version, list, target, rerunOf >>

\* RollbackVersion: f.Service.UpdateAlias(current -> version); return err.
RollbackVersionUpdateAlias(p) ==
    /\ p \in procs
    /\ pc[p] = "RollbackVersionAlias"
    /\ \E fault \in BOOLEAN :
          LET resp == Call(fault, remote, UpdateAlias(remote, version[p]))
          IN  /\ Step(p, "UpdateAlias", version[p], resp, "done", resp.err)
              /\ target' = [target EXCEPT ![p] = version[p]]
    /\ UNCHANGED << procs, op, zip, version, cur, list, rerunOf >>

Next ==
    \E p \in Procs :
        \/ Start(p)
        \/ ZipBytes(p)
        \/ Info(p)
        \/ Create(p)
        \/ CreateAliasWrite(p)
        \/ Update(p)
        \/ UpdateAliasWrite(p)
        \/ DeployConfig(p)
        \/ Delete(p)
        \/ RollbackGetAlias(p)
        \/ RollbackList(p)
        \/ RollbackUpdateAlias(p)
        \/ RollbackVersionGetAlias(p)
        \/ RollbackVersionUpdateAlias(p)

Spec == Init /\ [][Next]_vars

\* Two deployers work on the same remote function; their remote calls
\* interleave in any order.
InitConc == InitWith({1, 2})
SpecConc == InitConc /\ [][Next]_vars

\* ------------------------------------------------------------- local calls
\* The variables of the remote operations, which a local call leaves alone.
deployVars == << remote, procs, pc, op, zip, cfg, version, cur, list, target,
                calls, err, rerunOf, rolled >>

\* A local call with inputs i that has not returned yet.
Called(c, i) == [call |-> c, in |-> i, out |-> << >>, returned |-> FALSE]

\* The local call c returns out.
Return(c, out) ==
    /\ fn.call = c
    /\ ~fn.returned
    /\ fn' = [fn EXCEPT !.out = out, !.returned = TRUE]
    /\ UNCHANGED deployVars

\* ---- Open
\* Memory and Timeout range over -MaxSize..MaxSize.
MaxSize == 1
Sizes == (0 - MaxSize)..MaxSize
\* The runtimes runtime.ByName knows; "bogus" is a name it does not know.
KnownRuntimes == { "nodejs", "golang" }
RuntimeNames == { "", "nodejs", "bogus" }
Roles == { "", "arn:role" }
\* function.json: missing, not decodable, or decoded.
Files == { "absent", "malformed", "decoded" }
\* runtime.Detect(f.Path): the runtime of the directory's files, "" when it
\* returns an error.
Detected == { "", "golang" }
DecodeError == "json: cannot decode function.json"
ValidationError == "error opening function"
UnknownRuntime == "invalid runtime"

\* f.Config once function.json was decoded over it (Description plays no
\* part in Open and is left out).
FunctionConfigs ==
    [Runtime : RuntimeNames, Memory : Sizes, Timeout : Sizes, Role : Roles]

\* validate:"nonzero": the field is not its type's zero value.
NonzeroString(x) == x # ""
NonzeroInt(x) == x # 0

\* validator.Validate(&f.Config)
Validate(c) ==
    /\ NonzeroString(c.Runtime)
    /\ NonzeroInt(c.Memory)
    /\ NonzeroInt(c.Timeout)
    /\ NonzeroString(c.Role)

\* runtime.ByName(name) finds a runtime.
ByName(name) == name \in KnownRuntimes

OpenResult(e, c, r) == [err |-> e, Config |-> c, runtime |-> r]

\* Open: decode function.json, detect a missing runtime, validate, resolve.
Open(file, config, detected) ==
    IF file = "malformed" THEN OpenResult(DecodeError, config, "")
    ELSE LET c == IF config.Runtime = "" /\ detected # ""
                  THEN [config EXCEPT !.Runtime = detected]
                  ELSE config
         IN  IF ~Validate(c) THEN OpenResult(ValidationError, c, "")
             ELSE IF ~ByName(c.Runtime) THEN OpenResult(UnknownRuntime, c, "")
             ELSE OpenResult(Nil, c, c.Runtime)

OpenInputs == [file : Files, config : FunctionConfigs, detected : Detected]

OpenCall ==
    Return("Open", Open(fn.in.file, fn.in.config, fn.in.detected))

\* ---- Zip
\* f.runtime: compiled or not, shimmed or not.
Runtimes == [compiled : BOOLEAN, shimmed : BOOLEAN]
\* f.Path: whether its build succeeds, its files, whether they can be read.
Dirs ==
    [build : {Nil, BuildFailure},
     files : { Listing(S) : S \in SUBSET (1..MaxFiles) },
     readable : BOOLEAN]
\* env: f.env # nil.
ZipInputs == [rt : Runtimes, env : BOOLEAN, dir : Dirs]

ZipCall == Return("Zip", Zip(fn.in.rt, fn.in.env, fn.in.dir))

\* ---- Invoke
RequestResponse == "RequestResponse"
Event == "Event"
DryRun == "DryRun"
InvocationTypes == { RequestResponse, Event, DryRun }

MarshalError == "json: unsupported type"
SyntaxError == "json: unexpected end of JSON input"
UnmarshalTypeError == "json: cannot unmarshal into Go value of type string"
InvocationError == "InvokeError"
NilDereference == "panic: nil pointer dereference"

\* res.Payload: no bytes, bytes that are no JSON document, or a JSON object
\* with the keys errorMessage, errorType and stackTrace (an array of strings
\* or of something else, as the python runtime's array of arrays) and
\* possibly a key "handled".
EmptyPayload == [form |-> "empty"]
Garbage == [form |-> "garbage"]
ErrorObjects ==
    [form : {"object"},
     errorMessage : {"boom"},
     errorType : {"TypeError"},
     stackTrace : { << >>, << "at handler" >> },
     stackOfStrings : BOOLEAN,
     handled : {"absent", "true", "false"}]
Payloads == { EmptyPayload, Garbage } \cup ErrorObjects

\* *res.FunctionError, "" standing for the nil pointer.
FunctionErrors == { "", "Handled", "Unhandled" }
\* res.LogResult: nil, or base64 text.
NilLogResult == "nil"
LogResults == { NilLogResult, "", "bG9n" }
\* base64.StdEncoding decoding of the log tail.
Base64Decode(t) == IF t = "bG9n" THEN "log" ELSE ""

InvokeResponses ==
    [err : {Nil, ServiceError},
     FunctionError : FunctionErrors,
     Payload : Payloads,
     LogResult : LogResults]

\* An io.Reader over bytes b, and the nil io.Reader.
Stream(b) == [nil |-> FALSE, bytes |-> b]
NilStream == [nil |-> TRUE, bytes |-> ""]
\* bytes.NewReader(nil)
EmptyStream == Stream("")

\* InvokeError, and the value of e when no InvokeError is returned.
InvokeError(m, t, st, h) ==
    [Message |-> m, Type |-> t, Stack |-> st, Handled |-> h]
NoInvokeError == InvokeError("", "", << >>, FALSE)

\* json.Unmarshal(payload, e): the keys are matched with the fields' json
\* names and, for the untagged field Handled, with its name in any case.
Unmarshal(payload, e) ==
    IF payload.form # "object" THEN [err |-> SyntaxError, e |-> e]
    ELSE IF ~payload.stackOfStrings THEN [err |-> UnmarshalTypeError, e |-> e]
    ELSE [err |-> Nil,
          e |-> InvokeError(payload.errorMessage, payload.errorType,
                            payload.stackTrace,
                            IF payload.handled = "absent" THEN e.Handled
                            ELSE payload.handled = "true")]

\* Bug variant of IsEvent: no kind is taken for the asynchronous one.
M_IsEvent_Never(kind) == FALSE

\* Invoke: kind == Event
IsEvent(kind) == kind = Event

InvokeResult(reply, logs, e, ie) ==
    [reply |-> reply, logs |-> logs, err |-> e, e |-> ie]

\* Invoke once the event and the context are marshalled and the remote
\* answered res.
Invoke(marshals, kind, res) ==
    IF ~marshals
    THEN InvokeResult(NilStream, NilStream, MarshalError, NoInvokeError)
    ELSE IF res.err # Nil
    THEN InvokeResult(NilStream, NilStream, res.err, NoInvokeError)
    ELSE IF res.FunctionError # ""
    THEN LET e == InvokeError("", "", << >>, res.FunctionError = "Handled")
             u == Unmarshal(res.Payload, e)
         IN  IF u.err # Nil
             THEN InvokeResult(NilStream, NilStream, u.err, NoInvokeError)
             ELSE InvokeResult(NilStream, NilStream, InvocationError, u.e)
    ELSE IF IsEvent(kind)
    THEN InvokeResult(EmptyStream, EmptyStream, Nil, NoInvokeError)
    ELSE IF res.LogResult = NilLogResult
    THEN InvokeResult(NilStream, NilStream, NilDereference, NoInvokeError)
    ELSE InvokeResult(Stream(res.Payload),
                      Stream(Base64Decode(res.LogResult)), Nil, NoInvokeError)

InvokeInputs ==
    [marshals : BOOLEAN, kind : InvocationTypes, res : InvokeResponses]

InvokeCall == Return("Invoke", Invoke(fn.in.marshals, fn.in.kind, fn.in.res))

InitLocal ==
    /\ AtConstruction({})
    /\ fn \in { Called("Open", i) : i \in OpenInputs }
             \cup { Called("Zip", i) : i \in ZipInputs }
             \cup { Called("Invoke", i) : i \in InvokeInputs }

NextLocal ==
    \/ OpenCall
    \/ ZipCall
    \/ InvokeCall

SpecLocal == InitLocal /\ [][NextLocal]_vars


\* ------------------------------------------------------------- vocabulary
DeployOps == { "Deploy", "DeployCode" }
\* p is the only deployer: nobody else writes the remote state meanwhile.
Alone(p) == procs = {p}
\* Every deployer is at rest, between two operations.
AtRest == \A p \in procs : pc[p] = "done"
\* The alias "current" exists and points at one published version.
Resolves(r) == r.alias \in 1..Len(r.Versions)
\* p's DeployCode got answer e to its state query (its first remote call).
Queried(p, e) ==
    /\ op[p] \in DeployOps
    /\ Len(calls[p]) >= 1
    /\ calls[p][1].api = "GetFunction"
    /\ calls[p][1].err = e
\* The alias write that belongs to a publish call.
AliasWriteOf(api) ==
    IF api = "CreateFunction" THEN "CreateAlias" ELSE "UpdateAlias"

\* ---------------------------------------------------------------------- C1
\* C1: between operations, whenever the remote function exists the alias
\* "current" exists and resolves to exactly one published version, also
\* after runs in which a remote call failed.
C1_ExistsImpliesAliasResolves ==
    (AtRest /\ remote.exists) => Resolves(remote)

\* ---------------------------------------------------------------------- C2
\* C2: when the previous DeployCode published its artifact but failed to
\* write the alias, a DeployCode of the same artifact that meets no failure
\* ends with "current" at a version that holds that artifact's code (the
\* version left unaliased, or one published since).
C2_RerunRepairsAlias ==
    \A p \in procs :
        ( /\ pc[p] = "done"
          /\ op[p] = "DeployCode"
          /\ rerunOf[p] # 0
          /\ err[p] = Nil
          /\ Len(calls[p]) >= 1
          /\ \A i \in 1..Len(calls[p]) : calls[p][i].err = Nil )
        => ( /\ Resolves(remote)
             /\ remote.Versions[remote.alias] = Sha256(zip[p]) )


\* ---------------------------------------------------------------------- C3
\* C3: a DeployCode whose state query answers NotFound calls Create exactly
\* once (one CreateFunction call, issued as soon as the query returned) and
\* issues no UpdateFunctionCode and no UpdateAlias call.
C3_NotFoundCreatesOnce ==
    \A p \in procs :
        Queried(p, NotFound)
        => /\ Count(calls[p], {"UpdateFunctionCode", "UpdateAlias"}) = 0
           /\ Count(calls[p], {"CreateFunction"}) =
                  (IF pc[p] = "Create" THEN 0 ELSE 1)
           /\ Len(calls[p]) >= 2 => calls[p][2].api = "CreateFunction"

\* A DeployCode on a NotFound remote ran Create to its end and succeeded.
C3_Witness ==
    /\ pc[1] = "done" /\ op[1] = "DeployCode" /\ err[1] = Nil
    /\ Queried(1, NotFound)
    /\ Len(calls[1]) = 3
    /\ calls[1][3].api = "CreateAlias"

\* ---------------------------------------------------------------------- C4
\* C4: the step of DeployCode that finds the remote function with a code
\* hash equal to the local artifact's hash leaves the remote state (function,
\* versions, alias, configuration) as it was, has issued the state query and
\* no other call, and returns success: DeployCode is done with a nil error
\* (Deploy goes on to its configuration stage).
C4_UnchangedStep(p) ==
    ( /\ pc[p] = "Info"
      /\ pc'[p] # "Info"
      /\ calls'[p][1].err = Nil
      /\ calls'[p][1].out = Sha256(zip[p]) )
    => /\ remote' = remote
       /\ Len(calls'[p]) = 1
       /\ calls'[p][1].api = "GetFunction"
       /\ err'[p] = Nil
       /\ pc'[p] = (IF op[p] = "Deploy" THEN "DeployConfig" ELSE "done")

\* C4, as a property of every step: DeployCode with equal hashes performs
\* no remote mutation, leaves the remote state unchanged and returns success.
C4_EqualHashNoMutation == [][\A p \in Procs : C4_UnchangedStep(p)]_vars

\* A DeployCode of the artifact the function already runs has returned.
C4_Witness ==
    /\ pc[1] = "done" /\ op[1] = "DeployCode" /\ err[1] = Nil
    /\ Queried(1, Nil)
    /\ calls[1][1].out = Sha256(zip[1])
    /\ Len(calls[1]) = 1
    /\ remote.exists /\ remote.CodeSha256 = Sha256(zip[1])

\* ---------------------------------------------------------------------- C5
\* C5: a DeployCode whose state query reports a code hash that differs from
\* the local artifact's hash calls Update exactly once (one
\* UpdateFunctionCode call, issued as soon as the query returned) and issues
\* no CreateFunction and no CreateAlias call.
C5_DifferentHashUpdatesOnce ==
    \A p \in procs :
        (Queried(p, Nil) /\ calls[p][1].out # Sha256(zip[p]))
        => /\ Count(calls[p], {"CreateFunction", "CreateAlias"}) = 0
           /\ Count(calls[p], {"UpdateFunctionCode"}) =
                  (IF pc[p] = "Update" THEN 0 ELSE 1)
           /\ Len(calls[p]) >= 2 => calls[p][2].api = "UpdateFunctionCode"

\* A DeployCode of new code ran Update to its end and succeeded.
C5_Witness ==
    /\ pc[1] = "done" /\ op[1] = "DeployCode" /\ err[1] = Nil
    /\ Queried(1, Nil)
    /\ calls[1][1].out # Sha256(zip[1])
    /\ Len(calls[1]) = 3
    /\ calls[1][3].api = "UpdateAlias"

\* ---------------------------------------------------------------------- C6
\* C6: in Create and in Update (called directly or through DeployCode and
\* Deploy) an alias write directly follows the operation's own publish call,
\* which succeeded, and carries the version that call returned; there is at
\* most one, and exactly one once the operation has returned after a
\* successful publish; a failed publish is followed by no call at all; and
\* the alias write is the operation's last remote call (only the
\* configuration push of Deploy comes after it).  With a single deployer a
\* successful alias write leaves "current" at that version.
CreateUpdateOps == { "Create", "Update", "Deploy", "DeployCode" }

C6_AliasWriteAt(p, i) ==
    LET cs == calls[p] IN
    /\ cs[i].api \in AliasWrites
        => /\ i > 1
           /\ cs[i-1].api \in Publishes
           /\ cs[i].api = AliasWriteOf(cs[i-1].api)
           /\ cs[i-1].err = Nil
           /\ cs[i].arg = cs[i-1].out
           /\ \/ i = Len(cs)
              \/ /\ op[p] = "Deploy" /\ i + 1 = Len(cs) /\ cs[i].err = Nil
                 /\ cs[i+1].api = "UpdateFunctionConfiguration"
           /\ (Alone(p) /\ cs[i].err = Nil) => remote.alias = cs[i].arg
    /\ (cs[i].api \in Publishes /\ cs[i].err = Nil)
        => IF i = Len(cs)
           THEN pc[p] = AliasWriteOf(cs[i].api)
           ELSE cs[i+1].api = AliasWriteOf(cs[i].api)
    /\ (cs[i].api \in Publishes /\ cs[i].err # Nil)
        => (i = Len(cs) /\ pc[p] = "done" /\ err[p] = cs[i].err)

\* C6, over the whole call log of an operation that runs Create or Update:
\* one publish at most, one alias write at most, each alias write placed and
\* addressed as C6_AliasWriteAt says.
C6_OneAliasWriteAfterPublish ==
    \A p \in procs :
        op[p] \in CreateUpdateOps
        => /\ Count(calls[p], AliasWrites) <= 1
           /\ Count(calls[p], Publishes) <= 1
           /\ \A i \in 1..Len(calls[p]) : C6_AliasWriteAt(p, i)

\* An Update called directly published version 2 and pointed "current" at it.
C6_Witness ==
    /\ pc[1] = "done" /\ op[1] = "Update" /\ err[1] = Nil
    /\ Len(calls[1]) = 2
    /\ calls[1][1].api = "UpdateFunctionCode" /\ calls[1][1].out = 2
    /\ calls[1][2].api = "UpdateAlias" /\ calls[1][2].arg = 2
    /\ remote.alias = 2


\* ---------------------------------------------------------------------- C7
\* p's Rollback read the alias and then a version listing.
Listed(p) ==
    /\ op[p] = "Rollback"
    /\ Len(calls[p]) >= 2
    /\ calls[p][2].api = "ListVersionsByFunction"
    /\ calls[p][2].err = Nil

\* C7: a Rollback that read alias value c and a listing [$LATEST, v1..vn]
\* with n >= 2 issues one alias write, for vn unless c = vn and then for
\* v(n-1); with a single deployer a successful write leaves "current" there.
\* In particular with [$LATEST, 1, 2, 3]: c = 3 gives 2, c = 2 gives 3 and
\* c = 1 gives 3.
C7_RollbackRepoints ==
    \A p \in procs :
        (Listed(p) /\ Len(list[p]) >= 3)
        => LET l == list[p]
               n == Len(l)
               want == IF cur[p] = l[n] THEN l[n-1] ELSE l[n]
           IN  /\ l[1] = LATEST
               /\ target[p] = want
               /\ pc[p] \in {"RollbackAlias", "done"}
               /\ pc[p] = "RollbackAlias" => Len(calls[p]) = 2
               /\ pc[p] = "done"
                   => /\ Len(calls[p]) = 3
                      /\ calls[p][3].api = "UpdateAlias"
                      /\ calls[p][3].arg = want
                      /\ err[p] = calls[p][3].err
                      /\ (Alone(p) /\ err[p] = Nil) => remote.alias = want
               /\ l = << LATEST, 1, 2, 3 >>
                   => target[p] = (CASE cur[p] = 3 -> 2
                                     [] cur[p] = 2 -> 3
                                     [] OTHER -> 3)

\* A Rollback that found "current" at version 1, older than prev, in the
\* listing [$LATEST, 1, 2, 3] has moved it to 3.
C7_Witness ==
    /\ pc[1] = "done" /\ Listed(1) /\ err[1] = Nil
    /\ list[1] = << LATEST, 1, 2, 3 >>
    /\ cur[1] = 1
    /\ remote.alias = 3

\* ---------------------------------------------------------------------- C8
\* C8: a Rollback whose listing holds fewer than two versions after its
\* leading $LATEST returns the precondition error "only one version
\* deployed" right after the listing, with no alias write; with a single
\* deployer "current" is still the version the operation read.
C8_RollbackNeedsTwoVersions ==
    \A p \in procs :
        (Listed(p) /\ Len(list[p]) - 1 < 2)
        => /\ pc[p] = "done"
           /\ err[p] = OnlyOneVersion
           /\ Len(calls[p]) = 2
           /\ Count(calls[p], AliasWrites) = 0
           /\ Alone(p) => remote.alias = cur[p]

\* A Rollback of a function with the listing [$LATEST, 1] has been refused.
C8_Witness ==
    /\ pc[1] = "done" /\ Listed(1)
    /\ list[1] = << LATEST, 1 >>
    /\ err[1] = OnlyOneVersion
    /\ remote.alias = 1

\* ---------------------------------------------------------------------- C9
\* p's RollbackVersion read the alias.
AliasRead(p) ==
    /\ op[p] = "RollbackVersion"
    /\ Len(calls[p]) >= 1
    /\ calls[p][1].api = "GetAlias"
    /\ calls[p][1].err = Nil

\* C9: a RollbackVersion(v) that read the alias returns the precondition
\* error with no alias write when v is the version read; for every other v,
\* in the version history or not, it issues exactly one alias write, for v,
\* and returns that call's error.
C9_RollbackVersionWrites ==
    \A p \in procs :
        AliasRead(p)
        => IF version[p] = cur[p]
           THEN /\ pc[p] = "done"
                /\ err[p] = CurrentlyDeployed
                /\ Len(calls[p]) = 1
                /\ Alone(p) => remote.alias = cur[p]
           ELSE /\ pc[p] \in {"RollbackVersionAlias", "done"}
                /\ pc[p] = "RollbackVersionAlias" => Len(calls[p]) = 1
                /\ pc[p] = "done"
                    => /\ Len(calls[p]) = 2
                       /\ calls[p][2].api = "UpdateAlias"
                       /\ calls[p][2].arg = version[p]
                       /\ err[p] = calls[p][2].err
                       /\ (Alone(p) /\ err[p] = Nil)
                              => remote.alias = version[p]

\* A RollbackVersion to a version that was never published has issued its
\* alias write.
C9_Witness ==
    /\ pc[1] = "done" /\ AliasRead(1)
    /\ ~ValidVersion(remote, version[1])
    /\ Len(calls[1]) = 2
    /\ calls[1][2].api = "UpdateAlias"
    /\ calls[1][2].arg = version[1]

\* --------------------------------------------------------------------- C10
\* C10: no Rollback and no RollbackVersion, whatever the listing and the
\* version argument, issues an alias write for the sentinel $LATEST.
C10_NeverTargetsLatest ==
    \A p \in procs :
        op[p] \in {"Rollback", "RollbackVersion"}
        => \A i \in 1..Len(calls[p]) :
               calls[p][i].api \in AliasWrites => calls[p][i].arg # LATEST


\* --------------------------------------------------------------------- C11
ConfigPush == { "UpdateFunctionConfiguration" }
\* The calls of p's operation that belong to its DeployCode stage.
CodeCalls(p) == SelectSeq(calls[p], LAMBDA c : c.api \notin ConfigPush)
\* The DeployCode stage of p's Deploy failed: in the build, or in a remote
\* call other than a state query answered NotFound.
CodeFailed(p) ==
    \/ calls[p] = << >> /\ err[p] # Nil
    \/ \E i \in 1..Len(CodeCalls(p)) :
          /\ CodeCalls(p)[i].err # Nil
          /\ ~(i = 1 /\ CodeCalls(p)[i].api = "GetFunction"
                     /\ CodeCalls(p)[i].err = NotFound)

\* C11: a Deploy that has returned issued no UpdateFunctionConfiguration
\* call when its DeployCode stage failed (build, query, create, update or
\* alias write) and returned that failure; when the stage succeeded, by
\* Create, by Update or unchanged, it issued exactly one, as its last call,
\* and returned that call's error.  No Deploy issues more than one.
C11_DeployStopsAtFirstFailure ==
    \A p \in procs :
        op[p] = "Deploy"
        => /\ Count(calls[p], ConfigPush) <= 1
           /\ pc[p] = "DeployConfig"
               => (~CodeFailed(p) /\ Count(calls[p], ConfigPush) = 0)
           /\ pc[p] = "done"
               => IF CodeFailed(p)
                  THEN /\ Count(calls[p], ConfigPush) = 0
                       /\ err[p] # Nil
                       /\ calls[p] # << >>
                           => err[p] = calls[p][Len(calls[p])].err
                  ELSE /\ Count(calls[p], ConfigPush) = 1
                       /\ calls[p][Len(calls[p])].api \in ConfigPush
                       /\ err[p] = calls[p][Len(calls[p])].err
                       /\ Len(CodeCalls(p)) \in {1, 3}

\* A Deploy whose code was unchanged has pushed the configuration; its calls
\* are the state query and the push.
C11_Witness ==
    /\ pc[1] = "done" /\ op[1] = "Deploy" /\ err[1] = Nil
    /\ Len(calls[1]) = 2
    /\ calls[1][1].api = "GetFunction" /\ calls[1][1].err = Nil
    /\ calls[1][2].api = "UpdateFunctionConfiguration"


\* --------------------------------------------------------------------- C12
\* p's operation published new code through Update and wrote the alias, and
\* returned success.
UpdatedOk(p) ==
    /\ pc[p] = "done" /\ err[p] = Nil
    /\ op[p] \in {"Update", "DeployCode"}
    /\ Len(calls[p]) >= 2
    /\ calls[p][Len(calls[p])].api = "UpdateAlias"
    /\ calls[p][Len(calls[p])].err = Nil

C12_AliasWriteStep(p) ==
    (pc[p] = "UpdateAlias" /\ pc'[p] # "UpdateAlias" /\ err'[p] = Nil)
    => /\ remote'.alias = target[p]
       /\ calls'[p][Len(calls'[p])].api = "UpdateAlias"
       /\ calls'[p][Len(calls'[p])].arg = target[p]
       /\ remote'.Versions = remote.Versions

\* C12: with two deployers, the alias write that ends an Update is guarded
\* by no check of what "current" or the version list have become since the
\* publish: whenever it succeeds, "current" is the version this deployer
\* published, whatever it pointed at before (the last alias write wins).
C12_LastAliasWriteWins == [][\A p \in Procs : C12_AliasWriteStep(p)]_vars

\* Both deployers have updated the function and returned success, and
\* "current" points at a published version that is not the newest one.
C12_Witness ==
    /\ procs = {1, 2}
    /\ UpdatedOk(1) /\ UpdatedOk(2)
    /\ remote.alias \in 1..Len(remote.Versions)
    /\ remote.alias # Len(remote.Versions)
    /\ remote.alias \in {target[1], target[2]}
    /\ Len(remote.Versions) \in {target[1], target[2]}


\* --------------------------------------------------------------------- C13
Opened == fn.call = "Open" /\ fn.returned

\* The configuration breaks one of the invariants of a function's config.
InvalidConfig(c) ==
    \/ c.Memory <= 0
    \/ c.Timeout <= 0
    \/ c.Role = ""
    \/ c.Runtime \notin KnownRuntimes

\* C13: Open returns an error for every configuration with memory <= 0,
\* timeout <= 0, an empty role or a runtime that resolves to no known
\* runtime, negative memory and timeout included.
C13_OpenRejectsInvalidConfig ==
    (Opened /\ InvalidConfig(fn.out.Config)) => fn.out.err # Nil


\* --------------------------------------------------------------------- C14
AbortingOps == { "DeployCode", "Create", "Update", "Deploy", "Rollback",
                 "RollbackVersion" }

\* The i-th call of p's operation is the state query of DeployCode answered
\* NotFound: the one failure that is not surfaced.
Intercepted(p, i) ==
    /\ i = 1
    /\ op[p] \in DeployOps
    /\ calls[p][i].api = "GetFunction"
    /\ calls[p][i].err = NotFound

\* The i-th call of p's operation failed, was the operation's last call, and
\* the operation returned its error as it was.
Aborted(p, i) ==
    /\ i = Len(calls[p])
    /\ pc[p] = "done"
    /\ err[p] = calls[p][i].err

\* C14: in DeployCode, Create, Update, Deploy, Rollback and RollbackVersion
\* a failed remote call is the operation's last call and its error is what
\* the operation returns, except a NotFound answer to DeployCode's state
\* query, which is followed by CreateFunction; a state query that fails in
\* any other way is followed by no call at all.
C14_RemoteFailureAborts ==
    \A p \in procs :
        op[p] \in AbortingOps =>
            /\ \A i \in 1..Len(calls[p]) :
                  calls[p][i].err # Nil =>
                      IF Intercepted(p, i)
                      THEN /\ Len(calls[p]) = 1 => pc[p] = "Create"
                           /\ Len(calls[p]) >= 2 =>
                                  calls[p][2].api = "CreateFunction"
                      ELSE Aborted(p, i)
            /\ (op[p] \in DeployOps /\ Len(calls[p]) >= 1
                  /\ calls[p][1].err \notin {Nil, NotFound})
               => Count(calls[p], Mutations) = 0

\* A Deploy whose state query failed with a service error returned it after
\* that one call.
C14_Witness ==
    \E p \in procs :
        /\ op[p] = "Deploy"
        /\ Queried(p, ServiceError)
        /\ pc[p] = "done"
        /\ err[p] = ServiceError
        /\ Len(calls[p]) = 1


\* --------------------------------------------------------------------- C15
\* p packages a directory whose build fails, and ZipBytes has returned.
BuildFailed(p) ==
    /\ op[p] \in DeployOps
    /\ zip[p] = Broken
    /\ pc[p] # "ZipBytes"

\* C15: when the build of a compiled runtime fails, Zip returns the error
\* "compiling: <the build's error>" and no archive, whatever the environment
\* and the shim, and DeployCode and Deploy return that error having issued
\* no remote call.
C15_BuildFailureAborts ==
    \A p \in procs :
        BuildFailed(p) =>
            /\ pc[p] = "done"
            /\ err[p] = BuildError
            /\ calls[p] = << >>
            /\ \A env \in BOOLEAN, shimmed \in BOOLEAN :
                  Zip([compiled |-> TRUE, shimmed |-> shimmed], env,
                      DirOf(zip[p]))
                    = ZipResult(BuildError, BuildFailure, NoArchive)

\* A Deploy of a directory whose build fails has returned.
C15_Witness ==
    \E p \in procs :
        /\ op[p] = "Deploy"
        /\ BuildFailed(p)
        /\ err[p] = BuildError
        /\ remote.exists


\* --------------------------------------------------------------------- C16
\* Invoke returned, the remote call succeeded and reported a function error.
FunctionFailed ==
    /\ fn.call = "Invoke" /\ fn.returned
    /\ fn.in.marshals
    /\ fn.in.res.err = Nil
    /\ fn.in.res.FunctionError # ""

\* C16: for every invocation kind, when the remote reports a function error
\* Invoke returns no reply stream, no log stream and an InvokeError whose
\* handled flag is true exactly when the marker is "Handled" and whose
\* message, type and stack are those of the payload, if it has them.
C16_FunctionErrorIsInvokeError ==
    FunctionFailed =>
        /\ fn.out.reply = NilStream
        /\ fn.out.logs = NilStream
        /\ fn.out.err = InvocationError
        /\ fn.out.e.Handled = (fn.in.res.FunctionError = "Handled")
        /\ fn.in.res.Payload.form = "object" =>
              /\ fn.out.e.Message = fn.in.res.Payload.errorMessage
              /\ fn.out.e.Type = fn.in.res.Payload.errorType

\* --------------------------------------------------------------------- C17
\* Invoke returned, the kind is the asynchronous one, the remote call
\* succeeded and reported no function error.
AsyncSucceeded ==
    /\ fn.call = "Invoke" /\ fn.returned
    /\ fn.in.marshals
    /\ fn.in.kind = Event
    /\ fn.in.res.err = Nil
    /\ fn.in.res.FunctionError = ""

\* C17: an asynchronous Invoke whose remote call succeeds without a function
\* error returns a reply stream and a log stream of length zero and no
\* error, whatever the response's payload and log tail are.
C17_AsyncReturnsEmptyStreams ==
    AsyncSucceeded =>
        /\ fn.out.reply = EmptyStream
        /\ fn.out.logs = EmptyStream
        /\ fn.out.err = Nil

\* The response of an asynchronous Invoke carried a payload and a log tail.
C17_Witness ==
    /\ AsyncSucceeded
    /\ fn.in.res.Payload.form = "object"
    /\ fn.in.res.LogResult = "bG9n"


\* --------------------------------------------------------------------- C18
\* Zip returned an archive.
Zipped == fn.call = "Zip" /\ fn.returned /\ fn.out.err = Nil

\* The entries of archive a that were added from origin o, in order.
EntriesFrom(a, o) == SelectSeq(a, LAMBDA e : e.from = o)
\* The number of entries of a from origin o named base at the root.
RootEntries(a, o, base) ==
    Len(SelectSeq(a, LAMBDA e :
            e.from = o /\ e.name.dir = "" /\ e.name.base = base))

\* C18: the archive of a shimmed runtime holds two shim entries, index.js
\* once and byline.js once, both at the root, and one entry for each file of
\* the source directory at its path, whatever the directory holds; the
\* archive of a runtime that is not shimmed holds no shim entry and the
\* same entries for the directory's files.
C18_ShimEntries ==
    Zipped =>
        LET a == fn.out.archive
            src == EntriesFrom(a, "dir")
        IN  /\ Len(src) = Len(fn.in.dir.files)
            /\ \A i \in 1..Len(src) : src[i].name = fn.in.dir.files[i]
            /\ IF fn.in.rt.shimmed
               THEN /\ Len(EntriesFrom(a, "shim")) = 2
                    /\ RootEntries(a, "shim", "index.js") = 1
                    /\ RootEntries(a, "shim", "byline.js") = 1
               ELSE Len(EntriesFrom(a, "shim")) = 0

\* The archive of a shimmed runtime for a directory that itself holds a
\* file index.js at its top and a file byline.js further down.
C18_Witness ==
    /\ Zipped
    /\ fn.in.rt.shimmed
    /\ fn.in.env
    /\ Len(fn.in.dir.files) = MaxFiles
    /\ RootEntries(fn.out.archive, "dir", "index.js") = 1


\* --------------------------------------------------------------------- C19
\* p's Rollback wrote the alias and returned nil.
RolledBack(p) ==
    /\ Listed(p)
    /\ pc[p] = "done"
    /\ err[p] = Nil
    /\ Len(calls[p]) = 3

\* C19: with a single deployer, after a successful Rollback "current"
\* differs from the value the Rollback read and is one of the two newest
\* versions of the listing; and when the Rollback follows at once another
\* successful Rollback that started from the newest version, "current" is
\* the newest version again.
C19_RollbackToggles ==
    \A p \in procs :
        (Alone(p) /\ RolledBack(p))
        => LET versions == RollbackVersions(list[p])
               latest == versions[Len(versions)]
               prev == versions[Len(versions) - 1]
           IN  /\ latest # prev
               /\ remote.alias # cur[p]
               /\ remote.alias \in {latest, prev}
               /\ rolled[p] = latest
                   => /\ cur[p] = prev
                      /\ remote.alias = latest

\* The second of two consecutive Rollbacks has brought "current" back to
\* the newest of three versions.
C19_Witness ==
    /\ Alone(1) /\ RolledBack(1)
    /\ list[1] = << LATEST, 1, 2, 3 >>
    /\ rolled[1] = 3
    /\ cur[1] = 2
    /\ remote.alias = 3


\* --------------------------------------------------------------------- C20
\* Every configuration push in p's call log is the operation's last call
\* and ends it; in a Deploy that published a version it is the fourth call,
\* after the state query, the successful publish and the successful write
\* of "current" to the published version; a DeployConfig issues nothing
\* else.
ConfigPushedLast(p) ==
    op[p] \in {"Deploy", "DeployConfig"} =>
        /\ \A i \in 1..Len(calls[p]) :
              calls[p][i].api \in ConfigPush =>
                  /\ i = Len(calls[p])
                  /\ pc[p] = "done"
                  /\ op[p] = "DeployConfig" => i = 1
                  /\ (op[p] = "Deploy" /\ Count(calls[p], Publishes) > 0) =>
                        /\ i = 4
                        /\ calls[p][2].api \in Publishes
                        /\ calls[p][2].err = Nil
                        /\ calls[p][3].api = AliasWriteOf(calls[p][2].api)
                        /\ calls[p][3].arg = calls[p][2].out
                        /\ calls[p][3].err = Nil
        /\ op[p] = "DeployConfig" =>
              Count(calls[p], Publishes \cup AliasWrites) = 0

\* The step in which p pushes the configuration issues that one call, ends
\* the operation and leaves the version list, the alias and the existence
\* of the function as they were.
ConfigPushStep(p) ==
    (pc[p] = "DeployConfig" /\ pc'[p] # "DeployConfig") =>
        /\ pc'[p] = "done"
        /\ Len(calls'[p]) = Len(calls[p]) + 1
        /\ calls'[p][Len(calls'[p])].api \in ConfigPush
        /\ remote'.Versions = remote.Versions
        /\ remote'.alias = remote.alias
        /\ remote'.exists = remote.exists
        /\ remote'.CodeSha256 = remote.CodeSha256

\* C20: within Deploy the configuration push is the last remote call, on
\* the Create and Update paths after the publish and the alias write, and
\* the push itself, in Deploy and in DeployConfig, publishes no version and
\* writes no alias.
C20_ConfigPushLast ==
    [][\A p \in Procs : ConfigPushStep(p) /\ ConfigPushedLast(p)']_vars

\* A Deploy that updated the code has pushed the configuration as its
\* fourth call.
C20_Witness ==
    /\ pc[1] = "done" /\ op[1] = "Deploy" /\ err[1] = Nil
    /\ Len(calls[1]) = 4
    /\ calls[1][2].api = "UpdateFunctionCode"
    /\ calls[1][4].api = "UpdateFunctionConfiguration"
    /\ remote.alias = calls[1][2].out

====
